---- MODULE Spec2Model ----
(***************************************************************************)
(* HTTPRunDB (mlrun/db/httpdb.py): the HTTP client of the run database.    *)
(*                                                                         *)
(* One client handle performs one operation invocation.  An operation      *)
(* builds its request and hands it to api_call (pc = "sent"); the          *)
(* transport then answers with a response or an exception and the          *)
(* operation interprets it (pc = "done").  watch_log loops over get_log.   *)
(*                                                                         *)
(* Text is a sequence of tokens: a token is a non-empty piece of text      *)
(* without '/', or the separator "/" itself.  Bytes are sequences of       *)
(* ASCII codes.  Python values of mixed type are tagged records.           *)
(***************************************************************************)
EXTENDS Integers, Sequences, FiniteSets, TLC

\* ------------------------------------------------------------------ bounds
\* Longest caller-supplied text (project, uid, key, name), in tokens.
MaxStrLen == 1
\* Most get_log fetches of one watch_log invocation that the server leaves
\* in a non-terminal status; the fetch after them is answered terminally.
MaxPolls == 2

\* ------------------------------------------------------------ Python values
None == [type |-> "none"]
PStr(s) == [type |-> "str", val |-> s]
PInt(n) == [type |-> "int", val |-> n]
PList(l) == [type |-> "list", val |-> l]
PDict(d) == [type |-> "dict", val |-> d]
PBytes(b) == [type |-> "bytes", val |-> b]
PBool(b) == [type |-> "bool", val |-> b]

\* Python truthiness of a tagged value.
Truthy(v) ==
    CASE v.type = "none" -> FALSE
      [] v.type = "int" -> v.val # 0
      [] v.type = "bool" -> v.val
      [] v.type = "dict" -> DOMAIN v.val # {}
      [] OTHER -> v.val # <<>>

\* Python's `a or b`.
Or(a, b) == IF Truthy(a) THEN a ELSE b

\* All token sequences over alphabet of length at most n.
SeqsUpTo(alphabet, n) == UNION {[1..k -> alphabet] : k \in 0..n}

\* Caller-supplied text: the letter "a" and the path separator.
Text == SeqsUpTo({"a", "/"}, MaxStrLen)
\* Caller-supplied text of filters that never reach a path.
Names == {<<>>, <<"a">>}

\* str(n) of an int, digit by digit.
Digit(d) == CASE d = 0 -> "0" [] d = 1 -> "1" [] d = 2 -> "2" [] d = 3 -> "3"
              [] d = 4 -> "4" [] d = 5 -> "5" [] d = 6 -> "6" [] d = 7 -> "7"
              [] d = 8 -> "8" [] d = 9 -> "9"
RECURSIVE NatStr(_)
NatStr(n) == IF n < 10 THEN <<Digit(n)>> ELSE NatStr(n \div 10) \o <<Digit(n % 10)>>
str(n) == IF n < 0 THEN <<"-">> \o NatStr(-n) ELSE NatStr(n)

\* bytes.decode() on ASCII bytes.
Chr(b) == CASE b = 65 -> "A" [] b = 66 -> "B" [] b = 67 -> "C" [] b = 68 -> "D"
decode(bs) == [i \in DOMAIN bs |-> Chr(bs[i])]

\* s contains sub as a contiguous piece.
Contains(s, sub) ==
    \E i \in 0..(Len(s) - Len(sub)) : SubSeq(s, i + 1, i + Len(sub)) = sub

\* The '/'-separated path s has an empty segment.
HasEmptySegment(s) ==
    \/ s = <<>>
    \/ s[1] = "/"
    \/ s[Len(s)] = "/"
    \/ \E i \in 1..(Len(s) - 1) : s[i] = "/" /\ s[i + 1] = "/"

\* ---------------------------------------------------------------- constants
default_project == <<"default">>

bool2str(val) == IF val THEN <<"yes">> ELSE <<"no">>

\* RunDBError (mlrun/db/base.py) is an error kind of its own: an
\* `except OSError` clause does not catch it.
RunDBError_is_OSError == FALSE

\* ------------------------------------------------------------------- state
VARIABLES
    client,     \* the handle: base_url, user, password, token
    pc,         \* "idle", "sent" (a request is with the transport), "done"
    op,         \* the operation invoked
    args,       \* its arguments
    requests,   \* every requests.request call of the invocation, in order
    responses,  \* what the transport answered to each, in order
    outcome,    \* how the invocation ended: a return value or a raised error
    offset,     \* watch_log's local offset
    emitted,    \* what watch_log printed, in order
    slept,      \* total time watch_log slept
    logged      \* logger.error messages

vars == <<client, pc, op, args, requests, responses, outcome, offset, emitted,
          slept, logged>>

Return(v) == [kind |-> "return", value |-> v]
Raise(exc, msg) == [kind |-> "raise", exc |-> exc, msg |-> msg]
Pending == [kind |-> "pending"]

\* HTTPRunDB.__init__
Clients ==
    {[base_url |-> <<"http://db">>, user |-> u, password |-> <<"pw">>, token |-> t] :
        u \in {<<>>, <<"user">>}, t \in {<<>>, <<"tok">>}}

Init ==
    /\ client \in Clients
    /\ pc = "idle"
    /\ op = "none"
    /\ args = None
    /\ requests = <<>>
    /\ responses = <<>>
    /\ outcome = Pending
    /\ offset = 0
    /\ emitted = <<>>
    /\ slept = 0
    /\ logged = <<>>

\* ------------------------------------------------------------ path builder
\* HTTPRunDB._path_of
\* Fault variant: the project is used as given.
_path_of_no_default(prefix, project, uid) ==
    prefix \o <<"/">> \o project \o <<"/">> \o uid
_path_of(prefix, project, uid) ==
    LET p == IF project # <<>> THEN project ELSE default_project
    IN  prefix \o <<"/">> \o p \o <<"/">> \o uid

\* --------------------------------------------------------------- transport
\* What requests.request can do with one request: raise, or answer.
Statuses == {"pending", "running", "completed", "error"}
NonTerminal == {"pending", "running"}
NoHeaders == [h \in {} |-> ""]
HeaderSets ==
    {NoHeaders, [date |-> "today"]}
    \cup {[date |-> "today", function_status |-> s] : s \in Statuses}
Chunks == {<<>>, <<65, 66>>, <<67, 68>>}
JsonKinds == {"invalid", "empty", "envelope"}

Exceptions ==
    {[kind |-> "exception", err |-> e] : e \in {"timed out", "connection refused"}}
HttpErrors ==
    {[kind |-> "response", ok |-> FALSE, headers |-> [date |-> "today"],
      content |-> <<>>, json |-> "invalid", err |-> "500 Server Error"]}
LogResponses ==
    {[kind |-> "response", ok |-> TRUE, headers |-> h, content |-> c,
      json |-> "invalid", err |-> ""] : h \in HeaderSets, c \in Chunks}
StatusResponses ==
    {[kind |-> "response", ok |-> TRUE, headers |-> h, content |-> c,
      json |-> "invalid", err |-> ""] :
        h \in {NoHeaders, [date |-> "today"],
               [date |-> "today", function_status |-> "running",
                builder_pod |-> "pod-1"]},
        c \in Chunks}
JsonResponses ==
    {[kind |-> "response", ok |-> TRUE, headers |-> [date |-> "today"],
      content |-> <<>>, json |-> j, err |-> ""] : j \in JsonKinds}

LogOps == {"get_log", "watch_log"}
BuildOps == {"remote_builder", "get_builder_status"}

\* The answers worth telling apart for operation o.
TransportResults(o) ==
    Exceptions \cup HttpErrors
    \cup (IF o \in LogOps THEN LogResponses
          ELSE IF o = "get_builder_status" THEN StatusResponses
          ELSE JsonResponses)

\* Response.ok: raise_for_status would not raise.
resp_ok(t) == t.ok
\* headers.get(key, default)
headers_get(h, key, default) == IF key \in DOMAIN h THEN h[key] ELSE default

\* ---------------------------------------------------------------- api_call
api_url(path) == client.base_url \o <<"/api/">> \o path

\* kw of api_call: the given ones of params/data/json, and one auth.
api_kw(params, body, json) ==
    LET given == [params |-> params, data |-> body, json |-> json]
        kw == [k \in {x \in DOMAIN given : given[x].type # "none"} |-> given[k]]
    IN  IF client.user # <<>>
        THEN kw @@ [auth |-> <<client.user, client.password>>]
        ELSE IF client.token # <<>>
             THEN kw @@ [headers |-> [Authorization |-> <<"Bearer ">> \o client.token]]
             ELSE kw

\* The requests.request call api_call makes for its arguments.
api_request(method, path, error, params, body, json, timeout) ==
    [method |-> method, path |-> path, url |-> api_url(path), error |-> error,
     kw |-> api_kw(params, body, json), timeout |-> timeout]

\* error or '{} {}, error: {}'.format(method, url, err)
\* Fault variant: the generated message leaves the URL out.
api_error_no_url(req, err) ==
    IF Truthy(req.error) THEN req.error.val
    ELSE <<req.method, " ">> \o <<", error: ", err>>
api_error(req, err) ==
    IF Truthy(req.error) THEN req.error.val
    ELSE <<req.method, " ">> \o req.url \o <<", error: ", err>>

\* api_call's result for request req when the transport does t.
\* Fault variant: resp.raise_for_status() is not called.
api_call_no_raise_for_status(req, t) ==
    IF t.kind = "exception" THEN Raise("RunDBError", api_error(req, t.err))
    ELSE Return(t)
api_call(req, t) ==
    IF t.kind = "exception" THEN Raise("RunDBError", api_error(req, t.err))
    ELSE IF ~resp_ok(t) THEN Raise("RunDBError", api_error(req, t.err))
    ELSE Return(t)

\* _as_json
to_json_str == <<"to_json()">>
dict_to_json_str == <<"dict_to_json()">>
Structs == {[has_to_json |-> b] : b \in BOOLEAN}
_as_json(obj) == IF obj.has_to_json THEN PStr(to_json_str) ELSE PStr(dict_to_json_str)

\* resp.json()[key]
json_field(t, key) ==
    IF t.json = "invalid" THEN Raise("JSONDecodeError", <<"invalid json">>)
    ELSE IF t.json = "empty" THEN Raise("KeyError", <<key>>)
    ELSE Return([type |-> "json", field |-> key])

\* ------------------------------------------------------ resource operations
\* An operation's single call of api_call: the request goes to the transport.
Invoke(name, a, req) ==
    /\ pc = "idle"
    /\ op' = name
    /\ args' = a
    /\ requests' = Append(requests, req)
    /\ pc' = "sent"
    /\ UNCHANGED <<client, responses, outcome, offset, emitted, slept, logged>>

\* An operation that ends without calling api_call.
ReturnAtOnce(name, a, v) ==
    /\ pc = "idle"
    /\ op' = name
    /\ args' = a
    /\ outcome' = Return(v)
    /\ pc' = "done"
    /\ UNCHANGED <<client, requests, responses, offset, emitted, slept, logged>>

Labels == {None, PList(<<>>), PList(<<"l=1">>)}
Bodies == {None, PBytes(<<>>), PBytes(<<65>>)}
Iters == {0, 1}
Offsets == {0, 1}

connect ==
    Invoke("connect", None,
           api_request("GET", <<"healthz">>, None, None, None, None, 3))

store_log(uid, project, body, append) ==
    LET a == [uid |-> uid, project |-> project, body |-> body]
    IN  IF ~Truthy(body)
        THEN ReturnAtOnce("store_log", a, None)
        ELSE Invoke("store_log", a,
                 api_request("POST", _path_of(<<"log">>, project, uid),
                             PStr(<<"store log ">> \o project \o <<"/">> \o uid),
                             PDict([append |-> PStr(bool2str(append))]),
                             body, None, 20))

\* The request get_log makes (also from inside watch_log).
get_log_request(uid, project, off, size) ==
    api_request("GET", _path_of(<<"log">>, project, uid),
                PStr(<<"get log ">> \o project \o <<"/">> \o uid),
                PDict([offset |-> PInt(off), size |-> PInt(size)]),
                None, None, 20)

get_log(uid, project, off, size) ==
    Invoke("get_log", [uid |-> uid, project |-> project, offset |-> off],
           get_log_request(uid, project, off, size))

store_run(struct, uid, project, iter) ==
    Invoke("store_run", [uid |-> uid, project |-> project],
           api_request("POST", _path_of(<<"run">>, project, uid),
                       PStr(<<"store run ">> \o project \o <<"/">> \o uid),
                       PDict([iter |-> PInt(iter)]), _as_json(struct), None, 20))

update_run(updates, uid, project, iter) ==
    Invoke("update_run", [uid |-> uid, project |-> project],
           api_request("PATCH", _path_of(<<"run">>, project, uid),
                       PStr(<<"update run ">> \o project \o <<"/">> \o uid),
                       PDict([iter |-> PInt(iter)]), _as_json(updates), None, 20))

read_run(uid, project, iter) ==
    Invoke("read_run", [uid |-> uid, project |-> project],
           api_request("GET", _path_of(<<"run">>, project, uid),
                       PStr(<<"get run ">> \o project \o <<"/">> \o uid),
                       PDict([iter |-> PInt(iter)]), None, None, 20))

del_run(uid, project, iter) ==
    Invoke("del_run", [uid |-> uid, project |-> project],
           api_request("DELETE", _path_of(<<"run">>, project, uid),
                       PStr(<<"del run ">> \o project \o <<"/">> \o uid),
                       PDict([iter |-> PInt(iter)]), None, None, 20))

list_runs_params(name, uid, project, labels, state, sort, iter) ==
    [name |-> PStr(name),
     uid |-> uid,
     project |-> PStr(IF project # <<>> THEN project ELSE default_project),
     label |-> Or(labels, PList(<<>>)),
     state |-> PStr(state),
     sort |-> PStr(bool2str(sort)),
     iter |-> PStr(bool2str(iter))]

list_runs(name, uid, project, labels, state, sort, iter) ==
    Invoke("list_runs", [uid |-> uid, project |-> project],
           api_request("GET", <<"runs">>, PStr(<<"list runs">>),
                       PDict(list_runs_params(name, uid, project, labels, state, sort, iter)),
                       None, None, 20))

del_runs(name, project, labels, state, days_ago) ==
    Invoke("del_runs", [project |-> project],
           api_request("DELETE", <<"runs">>, PStr(<<"del runs">>),
                       PDict([name |-> PStr(name),
                              project |-> PStr(IF project # <<>> THEN project
                                               ELSE default_project),
                              label |-> Or(labels, PList(<<>>)),
                              state |-> PStr(state),
                              days_ago |-> PStr(str(days_ago))]),
                       None, None, 20))

store_artifact(key, artifact, uid, tag, project) ==
    Invoke("store_artifact", [uid |-> uid, project |-> project, key |-> key],
           api_request("POST", _path_of(<<"artifact">>, project, uid) \o <<"/">> \o key,
                       PStr(<<"store artifact ">> \o project \o <<"/">> \o uid
                            \o <<"/">> \o key),
                       PDict([tag |-> PStr(tag)]), _as_json(artifact), None, 20))

read_artifact(key, tag, project) ==
    LET proj == IF project # <<>> THEN project ELSE default_project
        t == IF tag # <<>> THEN tag ELSE <<"latest">>
    IN  Invoke("read_artifact", [uid |-> t, project |-> project, key |-> key],
               api_request("GET", _path_of(<<"artifact">>, proj, t) \o <<"/">> \o key,
                           PStr(<<"read artifact ">> \o proj \o <<"/">> \o key),
                           None, None, None, 20))

del_artifact(key, tag, project) ==
    Invoke("del_artifact", [uid |-> key, project |-> project],
           api_request("DELETE", _path_of(<<"artifact">>, project, key),
                       PStr(<<"del artifact ">> \o project \o <<"/">> \o key),
                       PDict([key |-> PStr(key), tag |-> PStr(tag)]), None, None, 20))

list_artifacts(name, project, tag, labels) ==
    Invoke("list_artifacts", [project |-> project, tag |-> tag],
           api_request("GET", <<"artifacts">>, PStr(<<"list artifacts">>),
                       PDict([name |-> PStr(name),
                              project |-> PStr(IF project # <<>> THEN project
                                               ELSE default_project),
                              tag |-> PStr(tag),
                              label |-> Or(labels, PList(<<>>))]),
                       None, None, 20))

del_artifacts(name, project, tag, labels, days_ago) ==
    Invoke("del_artifacts", [project |-> project],
           api_request("DELETE", <<"artifacts">>, PStr(<<"del artifacts">>),
                       PDict([name |-> PStr(name),
                              project |-> PStr(IF project # <<>> THEN project
                                               ELSE default_project),
                              tag |-> PStr(tag),
                              label |-> Or(labels, PList(<<>>)),
                              days_ago |-> PStr(str(days_ago))]),
                       None, None, 20))

store_function(name, project, tag) ==
    LET proj == IF project # <<>> THEN project ELSE default_project
    IN  Invoke("store_function", [uid |-> name, project |-> project],
               api_request("POST", _path_of(<<"func">>, proj, name),
                           PStr(<<"store function ">> \o proj \o <<"/">> \o name),
                           PDict([tag |-> PStr(tag)]), PStr(<<"json.dumps()">>),
                           None, 20))

get_function(name, project, tag) ==
    LET proj == IF project # <<>> THEN project ELSE default_project
    IN  Invoke("get_function", [uid |-> name, project |-> project],
               api_request("GET", _path_of(<<"func">>, proj, name),
                           PStr(<<"get function ">> \o proj \o <<"/">> \o name),
                           PDict([tag |-> PStr(tag)]), None, None, 20))

list_functions(name, project, tag, labels) ==
    Invoke("list_functions", [project |-> project],
           api_request("GET", <<"funcs">>, PStr(<<"list functions">>),
                       PDict([project |-> PStr(IF project # <<>> THEN project
                                               ELSE default_project),
                              name |-> PStr(name),
                              tag |-> PStr(tag),
                              label |-> Or(labels, PList(<<>>))]),
                       None, None, 20))

remote_builder(with_mlrun) ==
    Invoke("remote_builder", None,
           api_request("POST", <<"build", "/", "function">>, None, None, None,
                       PDict([function |-> PStr(<<"runtime.to_dict()">>),
                              with_mlrun |-> PBool(with_mlrun)]), 20))

get_builder_status(name, project, tag, off) ==
    Invoke("get_builder_status", [project |-> project],
           api_request("GET", <<"build", "/", "status">>, None,
                       PDict([name |-> PStr(name),
                              project |-> PStr(project),
                              tag |-> PStr(tag),
                              offset |-> PStr(str(off))]),
                       None, None, 20))

\* ------------------------------------------------- interpreting the answer
\* `except OSError` catches exception class exc.
IsOSError(exc) == exc = "OSError" \/ (exc = "RunDBError" /\ RunDBError_is_OSError)

\* get_log after its api_call ended as r: (state, resp.content).  state is
\* assigned only under `if resp.headers`.
get_log_result(r) ==
    IF r.kind = "raise" THEN r
    ELSE IF DOMAIN r.value.headers # {}
         THEN Return(<<headers_get(r.value.headers, "function_status", ""),
                       r.value.content>>)
         ELSE Raise("UnboundLocalError",
                    <<"local variable 'state' referenced before assignment">>)

\* resp.json()
resp_json(t) ==
    IF t.json = "invalid" THEN Raise("JSONDecodeError", <<"invalid json">>)
    ELSE Return([type |-> "json", field |-> "*"])

\* remote_builder / get_builder_status after api_call ended as r: the
\* except OSError clause, the `if not resp.ok` check, the result.
build_result(o, r) ==
    LET what == IF o = "remote_builder" THEN <<"error: cannot submit build, ">>
                ELSE <<"error: cannot get build status, ">>
        note == IF o = "remote_builder" THEN <<"error submitting build task: ">>
                ELSE <<"error getting build status: ">>
    IN  IF r.kind = "raise"
        THEN IF IsOSError(r.exc)
             THEN [outcome |-> Raise("OSError", what \o r.msg),
                   log |-> <<note \o r.msg>>]
             ELSE [outcome |-> r, log |-> <<>>]
        ELSE IF ~resp_ok(r.value)
             THEN [outcome |-> Raise("ValueError", <<"bad function run response">>),
                   log |-> << <<"bad resp!!">> >>]
             ELSE [outcome |->
                       IF o = "remote_builder" THEN resp_json(r.value)
                       ELSE Return(<<headers_get(r.value.headers, "function_status", ""),
                                     r.value.content>>),
                   log |-> <<>>]

\* What operation o makes of api_call's result r.
plain_result(o, a, r) ==
    IF r.kind = "raise" THEN r
    ELSE CASE o = "connect" -> Return(PStr(<<"self">>))
           [] o = "get_log" -> get_log_result(r)
           [] o = "read_run" -> json_field(r.value, "data")
           [] o = "list_runs" -> json_field(r.value, "runs")
           [] o = "read_artifact" -> Return(PBytes(r.value.content))
           [] o = "list_artifacts" ->
                LET v == json_field(r.value, "artifacts")
                IN  IF v.kind = "raise" THEN v
                    ELSE Return([type |-> "json", field |-> "artifacts", tag |-> a.tag])
           [] o = "get_function" -> json_field(r.value, "func")
           [] o = "list_functions" -> json_field(r.value, "funcs")
           [] OTHER -> Return(None)

finish(o, a, req, t) ==
    LET r == api_call(req, t)
    IN  IF o \in BuildOps THEN build_result(o, r)
        ELSE [outcome |-> plain_result(o, a, r), log |-> <<>>]

\* The transport answers the request of a single-request operation.
respond(t) ==
    /\ pc = "sent"
    /\ op # "watch_log"
    /\ LET f == finish(op, args, requests[Len(requests)], t)
       IN  /\ outcome' = f.outcome
           /\ logged' = logged \o f.log
    /\ responses' = Append(responses, t)
    /\ pc' = "done"
    /\ UNCHANGED <<client, op, args, requests, offset, emitted, slept>>

\* ---------------------------------------------------------------- watch_log
\* offset += len(text)
\* Fault variant: the offset advances by one per poll.
next_offset_by_one(off, text) == off + 1
next_offset(off, text) == off + Len(text)

\* `if watch:` and `while state in ['pending', 'running']`
\* Fault variants: the loop ignores `watch`; the loop ends on 'completed' only.
keep_polling_ignore_watch(watch, state) == state \in NonTerminal
keep_polling_until_completed(watch, state) == watch /\ state # "completed"
keep_polling(watch, state) == watch /\ state \in NonTerminal

\* `if text: print(text.decode(), ...)`; the first print ends the line.
printed(out, text, first) ==
    IF text # <<>>
    THEN Append(out, [text |-> decode(text), end |-> IF first THEN "\n" ELSE ""])
    ELSE out

watch_log(uid, project, watch, off) ==
    /\ pc = "idle"
    /\ op' = "watch_log"
    /\ args' = [uid |-> uid, project |-> project, watch |-> watch, offset |-> off]
    /\ offset' = off
    /\ requests' = Append(requests, get_log_request(uid, project, off, 0))
    /\ pc' = "sent"
    /\ UNCHANGED <<client, responses, outcome, emitted, slept, logged>>

\* The transport answers a get_log of watch_log; watch_log prints, and
\* either sleeps and fetches again or ends.
watch_log_poll(t) ==
    /\ pc = "sent"
    /\ op = "watch_log"
    /\ (/\ t.kind = "response"
        /\ t.ok
        /\ headers_get(t.headers, "function_status", "") \in NonTerminal
        /\ args.watch) => Len(responses) < MaxPolls
    /\ responses' = Append(responses, t)
    /\ logged' = logged
    /\ client' = client /\ op' = op /\ args' = args
    /\ LET g == get_log_result(api_call(requests[Len(requests)], t))
       IN  IF g.kind = "raise"
           THEN /\ outcome' = g
                /\ pc' = "done"
                /\ UNCHANGED <<requests, offset, emitted, slept>>
           ELSE LET state == g.value[1]
                    text == g.value[2]
                IN  /\ emitted' = printed(emitted, text, Len(responses) = 0)
                    /\ IF keep_polling(args.watch, state)
                       THEN /\ offset' = next_offset(offset, text)
                            /\ slept' = slept + 2
                            /\ requests' = Append(requests,
                                   get_log_request(args.uid, args.project,
                                                   next_offset(offset, text), 0))
                            /\ pc' = "sent"
                            /\ outcome' = outcome
                       ELSE /\ outcome' = Return(state)
                            /\ pc' = "done"
                            /\ UNCHANGED <<requests, offset, slept>>

\* ------------------------------------------------------------ specification
\* One invocation per handle: an operation is called, then answered.
Next ==
    \/ pc = "idle" /\ connect
    \/ pc = "idle" /\
       \E uid \in Text, project \in Text, body \in Bodies, append \in BOOLEAN :
           store_log(uid, project, body, append)
    \/ pc = "idle" /\
       \E uid \in Text, project \in Text, off \in Offsets : get_log(uid, project, off, 0)
    \/ pc = "idle" /\
       \E struct \in Structs, uid \in Text, project \in Text, iter \in Iters :
           store_run(struct, uid, project, iter)
    \/ pc = "idle" /\
       \E updates \in Structs, uid \in Text, project \in Text, iter \in Iters :
           update_run(updates, uid, project, iter)
    \/ pc = "idle" /\
       \E uid \in Text, project \in Text, iter \in Iters : read_run(uid, project, iter)
    \/ pc = "idle" /\
       \E uid \in Text, project \in Text, iter \in Iters : del_run(uid, project, iter)
    \/ pc = "idle" /\
       \E name \in Names, uid \in {None, PStr(<<"a">>)}, project \in Names,
          labels \in Labels, sort \in BOOLEAN, iter \in BOOLEAN :
           list_runs(name, uid, project, labels, <<>>, sort, iter)
    \/ pc = "idle" /\
       \E name \in Names, project \in Names, labels \in Labels, days_ago \in {0, 12} :
           del_runs(name, project, labels, <<>>, days_ago)
    \/ pc = "idle" /\
       \E key \in Text, artifact \in Structs, uid \in Text, tag \in Names,
          project \in Text :
           store_artifact(key, artifact, uid, tag, project)
    \/ pc = "idle" /\
       \E key \in Text, tag \in Text, project \in Text : read_artifact(key, tag, project)
    \/ pc = "idle" /\
       \E key \in Text, tag \in Names, project \in Text : del_artifact(key, tag, project)
    \/ pc = "idle" /\
       \E name \in Names, project \in Names, tag \in Names, labels \in Labels :
           list_artifacts(name, project, tag, labels)
    \/ pc = "idle" /\
       \E name \in Names, project \in Names, tag \in Names, labels \in Labels,
          days_ago \in {0, 12} :
           del_artifacts(name, project, tag, labels, days_ago)
    \/ pc = "idle" /\
       \E name \in Text, project \in Text, tag \in Names :
           store_function(name, project, tag)
    \/ pc = "idle" /\
       \E name \in Text, project \in Text, tag \in Names : get_function(name, project, tag)
    \/ pc = "idle" /\
       \E name \in Names, project \in Names, tag \in Names, labels \in Labels :
           list_functions(name, project, tag, labels)
    \/ pc = "idle" /\
       \E with_mlrun \in BOOLEAN : remote_builder(with_mlrun)
    \/ pc = "idle" /\
       \E name \in Names, project \in Names, tag \in Names, off \in {-1, 0} :
           get_builder_status(name, project, tag, off)
    \/ pc = "idle" /\
       \E uid \in Text, project \in Names, watch \in BOOLEAN, off \in Offsets :
           watch_log(uid, project, watch, off)
    \/ pc = "sent" /\ \E t \in TransportResults(op) : respond(t)
    \/ pc = "sent" /\ \E t \in TransportResults(op) : watch_log_poll(t)

Spec == Init /\ [][Next]_vars

\* ------------------------------------------------------------------ claims
\* Reading the history of an invocation.
LastRequest == requests[Len(requests)]
LastResponse == responses[Len(responses)]
\* The transport failed: an exception, or a non-2xx answer.
Failed(t) == t.kind = "exception" \/ ~t.ok
\* The answer carries headers, so a status can be read from it.
HasStatus(t) == ~Failed(t) /\ DOMAIN t.headers # {}
Status(t) == IF "function_status" \in DOMAIN t.headers THEN t.headers.function_status ELSE ""
StillRunning(t) == HasStatus(t) /\ Status(t) \in {"pending", "running"}
Watching == op = "watch_log" /\ args.watch
OffsetOf(req) == req.kw.params.val.offset.val

\* The non-empty bodies of the answered fetches, decoded, in order of receipt.
RECURSIVE BodiesReceived(_)
BodiesReceived(rs) ==
    IF rs = <<>> THEN <<>>
    ELSE LET t == rs[Len(rs)]
             before == BodiesReceived(SubSeq(rs, 1, Len(rs) - 1))
         IN  IF HasStatus(t) /\ t.content # <<>>
             THEN Append(before, [i \in DOMAIN t.content |-> Chr(t.content[i])])
             ELSE before

\* Bytes received in the first n answers.
RECURSIVE BytesReceived(_, _)
BytesReceived(rs, n) ==
    IF n = 0 THEN 0 ELSE BytesReceived(rs, n - 1) + Len(rs[n].content)

\* C1: watch_log with watch=true prints the non-empty bodies in the order
\* they were received, fetches again after every 'pending'/'running'
\* answer, issues no get_log after the first answer with another status,
\* and returns that answer's status.
C1_WatchEmitsInOrderAndStops ==
    Watching =>
        /\ [i \in DOMAIN emitted |-> emitted[i].text] = BodiesReceived(responses)
        /\ \A i \in DOMAIN responses :
               IF StillRunning(responses[i])
               THEN Len(requests) > i
               ELSE Len(requests) = i /\ pc = "done"
        /\ (pc = "done" /\ HasStatus(LastResponse)) =>
               outcome = Return(Status(LastResponse))

\* The scenario of the specification: 'AB' running, 'CD' running, '' completed.
C1_Witness ==
    /\ Watching
    /\ pc = "done"
    /\ Len(responses) = 3
    /\ [i \in DOMAIN emitted |-> emitted[i].text] = << <<"A", "B">>, <<"C", "D">> >>
    /\ outcome = Return("completed")
    /\ LastResponse.content = <<>>

\* C2: every get_log of one watch_log invocation is issued at the starting
\* offset plus the number of bytes received in all earlier answers.
C2_OffsetIsStartPlusBytesReceived ==
    op = "watch_log" =>
        \A i \in DOMAIN requests :
            OffsetOf(requests[i]) = args.offset + BytesReceived(responses, i - 1)

\* A start at offset 1, two bytes received, then a poll that returned nothing.
C2_Witness ==
    /\ op = "watch_log"
    /\ args.offset = 1
    /\ Len(requests) = 3
    /\ responses[1].content = <<65, 66>>
    /\ responses[2].content = <<>>
    /\ OffsetOf(requests[2]) = 3
    /\ OffsetOf(requests[3]) = 3

\* C3: watch_log with watch=false performs exactly one get_log and returns
\* that fetch's status, whatever the status is.
C3_NoWatchFetchesOnce ==
    (op = "watch_log" /\ ~args.watch) =>
        /\ Len(requests) = 1
        /\ Len(responses) = 1 => pc = "done"
        /\ (pc = "done" /\ HasStatus(LastResponse)) =>
               outcome = Return(Status(LastResponse))

C3_Witness ==
    /\ op = "watch_log"
    /\ ~args.watch
    /\ pc = "done"
    /\ Len(requests) = 1
    /\ outcome = Return("running")

\* C4: a Resource Operation sends at most one HTTP request per invocation,
\* and a failed request is not retried but surfaced to the caller.
C4_OneRequestFailureSurfaced ==
    op \notin {"none", "watch_log"} =>
        /\ Len(requests) <= 1
        /\ (pc = "done" /\ Len(responses) = 1 /\ Failed(LastResponse)) =>
               outcome.kind = "raise"

C4_Witness ==
    /\ op = "store_run"
    /\ pc = "done"
    /\ Len(requests) = 1
    /\ LastResponse.kind = "exception"
    /\ outcome.kind = "raise"
    /\ outcome.exc = "RunDBError"

\* The invocation ended on a transport timeout.
TimedOut ==
    /\ pc = "done"
    /\ Len(responses) >= 1
    /\ LastResponse.kind = "exception"
    /\ LastResponse.err = "timed out"

\* C5 as stated: on a transport timeout every Resource Operation raises a
\* RunDBError whose message contains the HTTP method and the request path.
C5_TimeoutMessageHasMethodAndPath ==
    (TimedOut /\ op # "watch_log") =>
        /\ outcome.kind = "raise"
        /\ outcome.exc = "RunDBError"
        /\ Contains(outcome.msg, <<LastRequest.method>>)
        /\ Contains(outcome.msg, LastRequest.path)

\* C5 amended: on a transport timeout the error's message contains the HTTP
\* method and the request path when api_call was given no error context;
\* an operation that passes its own context raises a RunDBError whose
\* message is exactly that context.
C5_TimeoutMessageIsContextOrMethodAndUrl ==
    (TimedOut /\ op # "watch_log") =>
        /\ outcome.kind = "raise"
        /\ IF LastRequest.error.type = "none"
           THEN /\ Contains(outcome.msg, <<LastRequest.method>>)
                /\ Contains(outcome.msg, LastRequest.path)
                /\ Contains(outcome.msg, <<"timed out">>)
           ELSE /\ outcome.exc = "RunDBError"
                /\ outcome.msg = LastRequest.error.val

\* connect times out: 'GET http://db/api/healthz, error: timed out'.
C5_Witness ==
    /\ TimedOut
    /\ op = "connect"
    /\ outcome.kind = "raise"
    /\ outcome.msg = <<"GET", " ", "http://db", "/api/", "healthz", ", error: ", "timed out">>

\* C6: a transport failure during remote_builder or get_builder_status is
\* caught, logged and re-raised as an OSError carrying 'error: cannot submit
\* build, ...' / 'error: cannot get build status, ...'.
C6_BuildTransportFailureRewrapped ==
    (pc = "done" /\ op \in {"remote_builder", "get_builder_status"}
        /\ Failed(LastResponse)) =>
        /\ outcome.kind = "raise"
        /\ outcome.exc = "OSError"
        /\ outcome.msg[1] = (IF op = "remote_builder"
                             THEN "error: cannot submit build, "
                             ELSE "error: cannot get build status, ")
        /\ Len(logged) = 1

\* Some answer to the pending request ends the operation with the
\* bad-response error.
EndsWithBadResponse ==
    \E t \in TransportResults(op) :
        /\ respond(t)
        /\ outcome'.kind = "raise"
        /\ outcome'.exc = "ValueError"
        /\ outcome'.msg = <<"bad function run response">>

\* C7: while a build call waits for its answer, an answer exists on which
\* the transport call does not raise and the operation raises ValueError
\* 'bad function run response'.
C7_BadResponseReachable ==
    (pc = "sent" /\ op \in {"remote_builder", "get_builder_status"}) =>
        ENABLED EndsWithBadResponse

\* C8: no query parameter map handed to the transport has a key whose
\* value is None.
C8_NoNoneParameter ==
    \A i \in DOMAIN requests :
        "params" \in DOMAIN requests[i].kw =>
            \A k \in DOMAIN requests[i].kw.params.val :
                requests[i].kw.params.val[k].type # "none"

\* The operations that address a resource through the path builder, and
\* the kind each passes.
KindOf(o) ==
    CASE o \in {"store_log", "get_log", "watch_log"} -> "log"
      [] o \in {"store_run", "update_run", "read_run", "del_run"} -> "run"
      [] o \in {"store_artifact", "read_artifact", "del_artifact"} -> "artifact"
      [] o \in {"store_function", "get_function"} -> "func"
Scoped ==
    /\ op \in {"store_log", "get_log", "watch_log", "store_run", "update_run",
               "read_run", "del_run", "store_artifact", "read_artifact",
               "del_artifact", "store_function", "get_function"}
    /\ Len(requests) >= 1
\* What the path builder returned: the request path, less the '/' + key
\* that store_artifact and read_artifact append.
PathBuilt ==
    IF op \in {"store_artifact", "read_artifact"}
    THEN SubSeq(requests[1].path, 1, Len(requests[1].path) - Len(args.key) - 1)
    ELSE requests[1].path
PathExpected ==
    <<KindOf(op), "/">>
    \o (IF args.project = <<>> THEN <<"default">> ELSE args.project)
    \o <<"/">> \o args.uid

\* C9 as stated: the path is kind/project/identifier with an empty project
\* replaced by the default, and it never has an empty segment.
C9_PathNeverHasEmptySegment ==
    Scoped => (PathBuilt = PathExpected /\ ~HasEmptySegment(PathBuilt))

\* C9 amended: the path is kind/project/identifier with an empty project
\* replaced by the default; it has an empty segment exactly when the
\* identifier, or a project that is not empty, has one.
C9_PathIsKindProjectIdentifier ==
    Scoped =>
        /\ PathBuilt = PathExpected
        /\ HasEmptySegment(PathBuilt) <=>
               \/ HasEmptySegment(args.uid)
               \/ (args.project # <<>> /\ HasEmptySegment(args.project))

\* read_run('a') with no project addresses run/default/a.
C9_Witness ==
    /\ op = "read_run"
    /\ args.project = <<>>
    /\ args.uid = <<"a">>
    /\ requests[1].path = <<"run", "/", "default", "/", "a">>
    /\ ~HasEmptySegment(PathBuilt)

\* C10: when a successful get_log answer carries no headers, get_log
\* reports a status that is neither 'pending' nor 'running' and does not
\* fail, and watch_log returns without raising.
C10_NoHeadersIsTerminalNotError ==
    (pc = "done" /\ op \in {"get_log", "watch_log"} /\ ~Failed(LastResponse)
        /\ DOMAIN LastResponse.headers = {}) =>
        /\ outcome.kind = "return"
        /\ IF op = "get_log"
           THEN outcome.value[1] \notin {"pending", "running"}
           ELSE outcome.value \notin {"pending", "running"}
====
